---------------------------- MODULE Spec2Model ----------------------------
(***************************************************************************)
(* Model of the two classes of the Wi-Fi intrusion detection toolkit:      *)
(*                                                                         *)
(*   DataCollector              (src/data_collector.py)                    *)
(*   FeatureEngineeringPipeline (src/featureEngineeringPipeline.py)        *)
(*                                                                         *)
(* CollectorSpec is the state machine of one DataCollector instance that   *)
(* serves several collect_data coroutines on one asyncio event loop.  A    *)
(* coroutine runs without interruption between two awaits, so it has two   *)
(* segments: from the call to `await collector(duration)` (line 37), and   *)
(* from the resumption to the end of collect_data, _save_data included.    *)
(*                                                                         *)
(* PipelineSpec is the state machine of a FeatureEngineeringPipeline       *)
(* object: its constructor, and create_features / _calculate_packet_rate   *)
(* applied to a table owned by the caller.                                 *)
(***************************************************************************)
EXTENDS Integers, Sequences, FiniteSets, TLC

VARIABLES
    \* ---- DataCollector ----
    pc,           \* per request: "idle", "awaiting", "returned", "raised"
    ctype,        \* per request: the collection_type argument
    duration,     \* per request: the duration argument
    data,         \* per request: the local variable `data` of collect_data
    exc,          \* per request: the exception collect_data raised to its caller
    handlerCalls, \* per request: how often a collector handler was invoked
    handlerResult,\* per request: how the awaited handler ended
    saveCalls,    \* per request: how often _save_data was entered
    saveOutcome,  \* per request: what data.to_csv did inside _save_data
    log,          \* per request: the records it sent to self.logger
    files,        \* the file system: path -> content of the file written there
    isDir,        \* the paths that are existing directories
    dirExists,    \* whether the directory save_path exists
    saveLog,      \* the order in which _save_data was entered and left
    \* ---- FeatureEngineeringPipeline ----
    ctor,         \* "new", "done", "raised": the constructor's position
    ctorExc,      \* the exception the constructor raised
    attrs,        \* the instance attributes bound on self
    loads,        \* per reference csv: how often pd.read_csv read it
    shuffles,     \* per attribute: how often .sample(frac=1, random_state=42) ran
    csvPresent,   \* whether the two csv files under kaggle/input exist
    raw_data,     \* the caller's Flow Record Table (column name -> column)
    raw_before,   \* that table as it was when the last call started
    pps_ret,      \* the column _calculate_packet_rate returned last
    cf_result,    \* how the last call ended
    lastCall      \* which method the last call was

collectorVars == <<pc, ctype, duration, data, exc, handlerCalls, handlerResult,
                   saveCalls, saveOutcome, log, files, isDir, dirExists,
                   saveLog>>

pipelineVars == <<ctor, ctorExc, attrs, loads, shuffles, csvPresent,
                  raw_data, raw_before, pps_ret, cf_result, lastCall>>

vars == <<collectorVars, pipelineVars>>

-----------------------------------------------------------------------------
(* Bounds of the model *)

\* the number of collect_data requests issued on the one instance
MaxRequests == 2

\* the number of flow records in a table
MaxRows == 3

Requests == 1 .. MaxRequests

\* the duration arguments tried
Durations == {1, 2}

\* the collection_type arguments tried: the three keys and one that is no key
CollectionTypes == {"normal", "attack", "synthetic", "bogus"}

-----------------------------------------------------------------------------
(* DataCollector *)

\* self.save_path, the constructor's argument
save_path == "out"

\* self.collectors: the dispatch table built by __init__
collectors ==
    [t \in {"normal", "attack", "synthetic"} |->
        CASE t = "normal"    -> "_collect_normal_traffic"
          [] t = "attack"    -> "_collect_attack_traffic"
          [] t = "synthetic" -> "_generate_synthetic_data"]

\* mutant of IsRecognized: the membership test is dropped
IsRecognizedAlways(t) == TRUE

\* `collection_type not in self.collectors` negated
IsRecognized(t) == t \in DOMAIN collectors

\* self.collectors.get(collection_type): the handler, or None for a missing key
CollectorsGet(t) == IF t \in DOMAIN collectors THEN collectors[t] ELSE "None"

\* mutant of DataBeforeTry: data is bound to an empty frame before the try
DataBeforeTryEmptyFrame == <<"frame", "empty", 0, 0>>

\* the binding of the local `data` when the try statement is entered: none
DataBeforeTry == <<"unbound", "", 0, 0>>

\* the DataFrame handler h hands back to request r asked for d seconds
Frame(h, r, d) == <<"frame", h, r, d>>

\* mutant of FileName: the collection type is left out of the file name
FileNameNoType(t) == save_path \o "/" \o "data.csv"

\* f'{self.save_path}/{collection_type}_data.csv'
FileName(t) == save_path \o "/" \o t \o "_data.csv"

\* what data.to_csv(path) does: the open fails, or the file is (over)written
ToCsvOutcome(path) ==
    IF ~dirExists THEN "FileNotFoundError"
    ELSE IF path \in isDir THEN "IsADirectoryError"
    ELSE "written"

\* the exceptions a collector handler may raise: one that `except Exception`
\* catches, and asyncio.CancelledError, which derives from BaseException
HandlerExceptions == {"TimeoutError", "CancelledError"}

IsException(e) == e # "CancelledError"

Info(m) == <<"INFO", m>>
Error(m) == <<"ERROR", m>>

WriteFile(fs, path, content) ==
    [p \in DOMAIN fs \cup {path} |-> IF p = path THEN content ELSE fs[p]]

\* Line 42, `self._save_data(data, collection_type)`, for request r of type t
\* whose local data is d and whose log so far is lg.  Reading an unbound
\* local raises UnboundLocalError before _save_data is entered.  _save_data
\* logs, writes, and swallows IsADirectoryError only; collect_data then
\* returns None.
SaveStep(r, t, d, lg) ==
    IF d[1] = "unbound"
    THEN /\ pc' = [pc EXCEPT ![r] = "raised"]
         /\ exc' = [exc EXCEPT ![r] = "UnboundLocalError"]
         /\ log' = [log EXCEPT ![r] = lg]
         /\ UNCHANGED <<saveCalls, saveOutcome, files, saveLog>>
    ELSE LET path == FileName(t)
             out  == ToCsvOutcome(path)
         IN /\ saveCalls' = [saveCalls EXCEPT ![r] = @ + 1]
            /\ saveOutcome' = [saveOutcome EXCEPT ![r] = out]
            /\ saveLog' = saveLog \o << <<"enter", r>>, <<"exit", r>> >>
            /\ files' = IF out = "written" THEN WriteFile(files, path, d)
                        ELSE files
            /\ log' = [log EXCEPT ![r] =
                         lg \o <<Info("Saving captured traffic")>>
                            \o (IF out = "IsADirectoryError"
                                THEN <<Error("Failed to save data")>>
                                ELSE <<>>)]
            /\ pc' = [pc EXCEPT ![r] = IF out = "FileNotFoundError"
                                       THEN "raised" ELSE "returned"]
            /\ exc' = [exc EXCEPT ![r] = IF out = "FileNotFoundError"
                                         THEN out ELSE @]

\* collect_data(collection_type = t, duration = d) up to its await.
\* Requests are numbered in the order they are issued.
Call(r, t, d) ==
    /\ pc[r] = "idle"
    /\ \A q \in Requests : q < r => pc[q] # "idle"
    /\ ctype' = [ctype EXCEPT ![r] = t]
    /\ duration' = [duration EXCEPT ![r] = d]
    /\ IF ~IsRecognized(t)
       THEN \* lines 30-32
            /\ pc' = [pc EXCEPT ![r] = "raised"]
            /\ exc' = [exc EXCEPT ![r] = "Exception: Invalid collector"]
            /\ log' = [log EXCEPT ![r] = <<Error("Invalid collection type")>>]
            /\ UNCHANGED <<data, handlerCalls, saveCalls, saveOutcome,
                           files, saveLog>>
       ELSE IF CollectorsGet(t) = "None"
       THEN \* lines 34-42 with collector = None: calling None raises
            \* TypeError inside the try, the except clause catches and logs
            \* it, and line 42 follows
            /\ data' = [data EXCEPT ![r] = DataBeforeTry]
            /\ UNCHANGED handlerCalls
            /\ SaveStep(r, t, DataBeforeTry,
                        <<Info("Capturing traffic"),
                          Error("Error occured during data collection")>>)
       ELSE \* lines 34-37: the handler is invoked and awaited
            /\ pc' = [pc EXCEPT ![r] = "awaiting"]
            /\ data' = [data EXCEPT ![r] = DataBeforeTry]
            /\ handlerCalls' = [handlerCalls EXCEPT ![r] = @ + 1]
            /\ log' = [log EXCEPT ![r] = <<Info("Capturing traffic")>>]
            /\ UNCHANGED <<exc, saveCalls, saveOutcome, files, saveLog>>
    /\ UNCHANGED <<handlerResult, isDir, dirExists>>
    /\ UNCHANGED pipelineVars

\* The awaited handler hands back a frame: lines 37-38, then line 42 and the
\* whole of _save_data.
HandlerReturns(r) ==
    /\ pc[r] = "awaiting"
    /\ LET d == Frame(CollectorsGet(ctype[r]), r, duration[r])
       IN /\ data' = [data EXCEPT ![r] = d]
          /\ SaveStep(r, ctype[r], d,
                      log[r] \o <<Info("Data Collected successfully")>>)
    /\ handlerResult' = [handlerResult EXCEPT ![r] = "returned"]
    /\ UNCHANGED <<ctype, duration, handlerCalls, isDir, dirExists>>
    /\ UNCHANGED pipelineVars

\* The awaited handler raises e.  An Exception is caught and logged (lines
\* 39-40) and line 42 follows with data as it was before the try; anything
\* else leaves collect_data at once.
HandlerRaises(r, e) ==
    /\ pc[r] = "awaiting"
    /\ IF IsException(e)
       THEN SaveStep(r, ctype[r], data[r],
                     log[r] \o <<Error("Error occured during data collection")>>)
       ELSE /\ pc' = [pc EXCEPT ![r] = "raised"]
            /\ exc' = [exc EXCEPT ![r] = e]
            /\ UNCHANGED <<log, saveCalls, saveOutcome, files, saveLog>>
    /\ handlerResult' = [handlerResult EXCEPT ![r] = e]
    /\ UNCHANGED <<ctype, duration, data, handlerCalls, isDir, dirExists>>
    /\ UNCHANGED pipelineVars

NoFile == [p \in {} |-> <<>>]

CollectData == \E r \in Requests, t \in CollectionTypes, d \in Durations :
                   Call(r, t, d)

CollectorReturns == \E r \in Requests : HandlerReturns(r)

CollectorRaises == \E r \in Requests, e \in HandlerExceptions :
                       HandlerRaises(r, e)

CollectorNext == CollectData \/ CollectorReturns \/ CollectorRaises

-----------------------------------------------------------------------------
(* FeatureEngineeringPipeline *)

\* the methods the class body defines
Methods == {"__init__", "create_features", "_create_time_features",
            "_calculate_packet_rate", "__load_dataset"}

\* the flow records tried, as <<Spkts, Dpkts, dur>>
FlowRecords == {<<10, 5, 3>>, <<0, 0, 0>>, <<100, 50, 10>>, <<1, 2, 2>>,
                <<3, 0, 0>>}

\* a DataFrame with the columns Spkts, Dpkts and dur, one row per record
MakeTable(rows) ==
    [c \in {"Spkts", "Dpkts", "dur"} |->
        [i \in 1 .. Len(rows) |->
            CASE c = "Spkts" -> rows[i][1]
              [] c = "Dpkts" -> rows[i][2]
              [] c = "dur"   -> rows[i][3]]]

Tables == {MakeTable(rows) :
             rows \in UNION {[1 .. n -> FlowRecords] : n \in 0 .. MaxRows}}

RECURSIVE GCD(_, _)
GCD(a, b) == IF b = 0 THEN a ELSE GCD(b, a % b)

\* a float64 that is the quotient of two non-negative integers
Fin(n, d) == <<"fin", n \div GCD(n, d), d \div GCD(n, d)>>
Inf == <<"inf", 1, 0>>
NaN == <<"nan", 0, 0>>

\* mutant of TrueDiv: floor division `//` in place of `/`
FloorDiv(a, b) == IF b = 0 THEN (IF a = 0 THEN NaN ELSE Inf)
                  ELSE Fin(a \div b, 1)

\* one element of Series / Series on non-negative numbers: numpy's true
\* division, which yields inf for x/0 and NaN for 0/0 and raises nothing
TrueDiv(a, b) == IF b = 0 THEN (IF a = 0 THEN NaN ELSE Inf)
                 ELSE Fin(a, b)

\* Series + Series and Series / Series of two columns of one frame
SeriesAdd(x, y) == [i \in 1 .. Len(x) |-> x[i] + y[i]]
SeriesDiv(x, y) == [i \in 1 .. Len(x) |-> TrueDiv(x[i], y[i])]

\* data[name] = col: the column is added to the frame, or replaced
SetColumn(t, name, col) ==
    [c \in DOMAIN t \cup {name} |-> IF c = name THEN col ELSE t[c]]

\* line 69
AfterTotalPackets(t) ==
    SetColumn(t, "Total_Packets", SeriesAdd(t["Spkts"], t["Dpkts"]))

\* line 70
AfterPps(t) == SetColumn(t, "pps", SeriesDiv(t["Total_Packets"], t["dur"]))

\* _calculate_packet_rate(data): the frame as the method leaves it; the
\* method returns its pps column
calculate_packet_rate(t) == AfterPps(AfterTotalPackets(t))

\* the methods create_features looks up on self, in evaluation order
LookupOrder == <<"_create_time_features", "_calculate_packet_rate",
                 "_calculate_burst_rate", "_calculate_iat",
                 "_create_statistical_features", "_create_protocol_features">>

\* the first of them the class does not define
FirstMissing ==
    LookupOrder[CHOOSE i \in 1 .. Len(LookupOrder) :
                   /\ LookupOrder[i] \notin Methods
                   /\ \A j \in 1 .. i - 1 : LookupOrder[j] \in Methods]

\* FeatureEngineeringPipeline(): __init__ and the __load_dataset it calls
Construct ==
    /\ ctor = "new"
    /\ IF ~csvPresent
       THEN \* line 75: pd.read_csv of a missing file
            /\ ctor' = "raised"
            /\ ctorExc' = "FileNotFoundError"
            /\ attrs' = {"transformers"}
            /\ UNCHANGED <<loads, shuffles>>
       ELSE LET bound == {"transformers", "testing_set", "training_set"}
            IN /\ attrs' = bound
               /\ loads' = [loads EXCEPT !["testing_set"] = @ + 1,
                                         !["training_set"] = @ + 1]
               /\ IF "train_df" \in bound
                  THEN \* line 93
                       /\ ctor' = "done"
                       /\ ctorExc' = "none"
                       /\ shuffles' = [shuffles EXCEPT !["train_df"] = @ + 1]
                  ELSE \* line 93 reads self.train_df, which nothing has bound
                       /\ ctor' = "raised"
                       /\ ctorExc' = "AttributeError: train_df"
                       /\ UNCHANGED shuffles
    /\ UNCHANGED <<csvPresent, raw_data, raw_before, pps_ret, cf_result,
                   lastCall>>
    /\ UNCHANGED collectorVars

\* create_features(raw_data) on the caller's table.  The dict display of
\* _create_time_features evaluates self._calculate_packet_rate(data) first
\* and then looks up self._calculate_burst_rate, which the class lacks.
CreateFeatures ==
    /\ raw_before' = raw_data
    /\ raw_data' = calculate_packet_rate(raw_data)
    /\ pps_ret' = calculate_packet_rate(raw_data)["pps"]
    /\ cf_result' = <<"raised", "AttributeError: " \o FirstMissing>>
    /\ lastCall' = "create_features"
    /\ UNCHANGED <<ctor, ctorExc, attrs, loads, shuffles, csvPresent>>
    /\ UNCHANGED collectorVars

\* _calculate_packet_rate(raw_data) called on its own
CalculatePacketRate ==
    /\ raw_before' = raw_data
    /\ raw_data' = calculate_packet_rate(raw_data)
    /\ pps_ret' = calculate_packet_rate(raw_data)["pps"]
    /\ cf_result' = <<"returned", "pps">>
    /\ lastCall' = "_calculate_packet_rate"
    /\ UNCHANGED <<ctor, ctorExc, attrs, loads, shuffles, csvPresent>>
    /\ UNCHANGED collectorVars

PipelineNext == Construct \/ CreateFeatures \/ CalculatePacketRate

-----------------------------------------------------------------------------
(* Specifications *)

\* a DataCollector before any request.  The class body does not define the
\* three handlers __init__ puts in the dispatch table, so an instance has
\* them from elsewhere (a subclass); each is an opaque awaitable that hands
\* back a frame or raises.  The pipeline is left out.
CollectorInit ==
    /\ pc = [r \in Requests |-> "idle"]
    /\ ctype = [r \in Requests |-> ""]
    /\ duration = [r \in Requests |-> 0]
    /\ data = [r \in Requests |-> <<"unbound", "", 0, 0>>]
    /\ exc = [r \in Requests |-> "none"]
    /\ handlerCalls = [r \in Requests |-> 0]
    /\ handlerResult = [r \in Requests |-> "none"]
    /\ saveCalls = [r \in Requests |-> 0]
    /\ saveOutcome = [r \in Requests |-> "none"]
    /\ log = [r \in Requests |-> <<>>]
    /\ files = NoFile
    /\ saveLog = <<>>
    /\ dirExists \in BOOLEAN
    /\ isDir \in SUBSET {FileName(t) : t \in DOMAIN collectors}
    /\ ~dirExists => isDir = {}
    /\ ctor = "new"
    /\ ctorExc = "none"
    /\ attrs = {}
    /\ loads = [f \in {"testing_set", "training_set"} |-> 0]
    /\ shuffles = [a \in {"testing_set", "training_set", "train_df"} |-> 0]
    /\ csvPresent = TRUE
    /\ raw_data = MakeTable(<<>>)
    /\ raw_before = MakeTable(<<>>)
    /\ pps_ret = <<>>
    /\ cf_result = <<"none", "">>
    /\ lastCall = "none"

\* a pipeline object before __init__ runs and a table the caller built; the
\* collector is left out
PipelineInit ==
    /\ pc = [r \in Requests |-> "idle"]
    /\ ctype = [r \in Requests |-> ""]
    /\ duration = [r \in Requests |-> 0]
    /\ data = [r \in Requests |-> <<"unbound", "", 0, 0>>]
    /\ exc = [r \in Requests |-> "none"]
    /\ handlerCalls = [r \in Requests |-> 0]
    /\ handlerResult = [r \in Requests |-> "none"]
    /\ saveCalls = [r \in Requests |-> 0]
    /\ saveOutcome = [r \in Requests |-> "none"]
    /\ log = [r \in Requests |-> <<>>]
    /\ files = NoFile
    /\ saveLog = <<>>
    /\ dirExists = TRUE
    /\ isDir = {}
    /\ ctor = "new"
    /\ ctorExc = "none"
    /\ attrs = {}
    /\ loads = [f \in {"testing_set", "training_set"} |-> 0]
    /\ shuffles = [a \in {"testing_set", "training_set", "train_df"} |-> 0]
    /\ csvPresent \in BOOLEAN
    /\ raw_data \in Tables
    /\ raw_before = raw_data
    /\ pps_ret = <<>>
    /\ cf_result = <<"none", "">>
    /\ lastCall = "none"

CollectorSpec == CollectorInit /\ [][CollectorNext]_vars

PipelineSpec == PipelineInit /\ [][PipelineNext]_vars

-----------------------------------------------------------------------------
(* Claims about DataCollector, checked under CollectorSpec *)

ValidTypes == {"normal", "attack", "synthetic"}

\* the path the interface section gives for a collection type
ExpectedPath(t) ==
    CASE t = "normal"    -> "out/normal_data.csv"
      [] t = "attack"    -> "out/attack_data.csv"
      [] t = "synthetic" -> "out/synthetic_data.csv"

\* C1: when the handler of a recognized collection type raises during
\* collect_data, _save_data is never entered for that request, the request
\* writes or changes no file, and collect_data does not return normally: it
\* ends by raising to its caller.
C1_FailedCollectionSkipsSave ==
    \A r \in Requests :
        handlerResult[r] \in HandlerExceptions =>
            /\ ctype[r] \in ValidTypes
            /\ saveCalls[r] = 0
            /\ saveOutcome[r] = "none"
            /\ \A i \in 1 .. Len(saveLog) : saveLog[i][2] # r
            /\ \A p \in DOMAIN files : files[p] # data[r]
            /\ pc[r] = "raised"
            /\ exc[r] # "none"

\* C1 witness: a handler raised an exception the except clause catches, and
\* the request ended by raising
C1_Witness ==
    \E r \in Requests :
        /\ handlerResult[r] = "TimeoutError"
        /\ pc[r] = "raised"
        /\ exc[r] = "UnboundLocalError"

\* C2: a request whose collection_type is no key of the dispatch table ends,
\* whatever its duration, by raising the invalid-collector error; it invokes
\* no handler, never enters _save_data and writes no file.
C2_UnknownTypeFailsFast ==
    \A r \in Requests :
        (pc[r] # "idle" /\ ctype[r] \notin ValidTypes) =>
            /\ pc[r] = "raised"
            /\ exc[r] = "Exception: Invalid collector"
            /\ handlerCalls[r] = 0
            /\ handlerResult[r] = "none"
            /\ saveCalls[r] = 0
            /\ saveOutcome[r] = "none"
            /\ \A i \in 1 .. Len(saveLog) : saveLog[i][2] # r
            /\ \A p \in DOMAIN files : files[p][3] # r

\* C2 witness: a "bogus" request was rejected while another request's file
\* is on disk
C2_Witness ==
    \E r, q \in Requests :
        /\ ctype[r] = "bogus"
        /\ duration[r] = 2
        /\ pc[r] = "raised"
        /\ saveOutcome[q] = "written"

\* C6: a save that failed is surfaced by collect_data to its caller: the
\* request does not end as a request whose save succeeded ends (collect_data
\* returns None in both cases, so only an exception can tell them apart).
C6_SaveFailureSurfaced ==
    \A r \in Requests :
        saveOutcome[r] \in {"IsADirectoryError", "FileNotFoundError"} =>
            pc[r] = "raised"

\* the positions of saveLog at which a request of type t entered a save that
\* wrote its file
WritesOf(t) ==
    {i \in 1 .. Len(saveLog) :
        /\ saveLog[i][1] = "enter"
        /\ ctype[saveLog[i][2]] = t
        /\ saveOutcome[saveLog[i][2]] = "written"}

Last(S) == CHOOSE i \in S : \A j \in S : j <= i

\* C7: under every interleaving of the requests, saves do not overlap (each
\* entry into _save_data is followed at once by its own exit), the only
\* files are the per-type files, and the file of a type holds exactly the
\* frame of one request of that type, the last that saved, collected by that
\* type's handler.
C7_SavesSerialized ==
    /\ \A i \in 1 .. Len(saveLog) :
          i % 2 = 1 =>
             /\ saveLog[i][1] = "enter"
             /\ i + 1 <= Len(saveLog)
             /\ saveLog[i + 1] = <<"exit", saveLog[i][2]>>
    /\ DOMAIN files \subseteq {ExpectedPath(t) : t \in ValidTypes}
    /\ \A t \in ValidTypes :
          IF WritesOf(t) = {}
          THEN ExpectedPath(t) \notin DOMAIN files
          ELSE LET w == saveLog[Last(WritesOf(t))][2]
               IN /\ ExpectedPath(t) \in DOMAIN files
                  /\ files[ExpectedPath(t)] = data[w]
                  /\ data[w] = <<"frame", collectors[t], w, duration[w]>>

\* C7 witness: two requests of one type were in flight together, the second
\* saved first, and the file holds the frame of the first
C7_Witness ==
    /\ MaxRequests >= 2
    /\ ctype[1] = "attack" /\ ctype[2] = "attack"
    /\ saveLog = << <<"enter", 2>>, <<"exit", 2>>, <<"enter", 1>>, <<"exit", 1>> >>
    /\ "out/attack_data.csv" \in DOMAIN files
    /\ files["out/attack_data.csv"] = <<"frame", "_collect_attack_traffic", 1,
                                        duration[1]>>

-----------------------------------------------------------------------------
(* Claims about FeatureEngineeringPipeline, checked under PipelineSpec *)

RowCount(t) == Len(t["dur"])

\* C3: create_features returns a feature table with as many rows as the
\* input table, row i derived from flow record i.
C3_RowsPreserved ==
    lastCall = "create_features" =>
        /\ cf_result[1] = "returned"
        /\ Len(pps_ret) = RowCount(raw_before)

\* C4: for every record with dur > 0 the packet rate computed for it is
\* exactly (Spkts + Dpkts) / dur, whatever the other records of the batch.
C4_PacketRateExact ==
    lastCall # "none" =>
        /\ Len(pps_ret) = RowCount(raw_before)
        /\ \A i \in 1 .. Len(pps_ret) :
              raw_before["dur"][i] > 0 =>
                 /\ pps_ret[i][1] = "fin"
                 /\ pps_ret[i][3] > 0
                 /\ pps_ret[i][2] * raw_before["dur"][i] =
                      (raw_before["Spkts"][i] + raw_before["Dpkts"][i])
                         * pps_ret[i][3]

\* C4 witness: the extractor ran on a batch that mixes a fractional rate, a
\* zero duration and a whole rate
C4_Witness ==
    /\ lastCall = "_calculate_packet_rate"
    /\ raw_before["dur"] = <<2, 0, 10>>
    /\ pps_ret = << <<"fin", 3, 2>>, <<"nan", 0, 0>>, <<"fin", 15, 1>> >>

\* C5: after a call the caller's table has the columns and the values it had
\* when the call started.
C5_InputUnchanged ==
    lastCall # "none" =>
        /\ DOMAIN raw_data = DOMAIN raw_before
        /\ \A c \in DOMAIN raw_before : raw_data[c] = raw_before[c]

\* C8: on the batch (10,5,3), (0,0,0), (100,50,10) create_features returns a
\* feature table whose packet_rate column is 5, the sentinel, 15.
C8_ZeroDurationSentinel ==
    ( /\ lastCall = "create_features"
      /\ raw_before["Spkts"] = <<10, 0, 100>>
      /\ raw_before["Dpkts"] = <<5, 0, 50>>
      /\ raw_before["dur"] = <<3, 0, 10>> ) =>
        /\ cf_result[1] = "returned"
        /\ pps_ret[1] = <<"fin", 5, 1>>
        /\ pps_ret[2][1] \in {"nan", "inf"}
        /\ pps_ret[3] = <<"fin", 15, 1>>

\* C9: with the reference files present, construction completes with each
\* partition loaded once and shuffled once, and nothing later changes that.
C9_PartitionsLoadedOnce ==
    (ctor # "new" /\ csvPresent) =>
        /\ ctor = "done"
        /\ loads["testing_set"] = 1 /\ loads["training_set"] = 1
        /\ shuffles["testing_set"] = 1 /\ shuffles["training_set"] = 1

=============================================================================
